---- MODULE Spec2Model ----
(***************************************************************************)
(* liten-http: the HTTP/1.1 message model of src/src.                      *)
(*                                                                         *)
(* Text is a sequence of characters; a character is a one-element string   *)
(* ("G", " ", "\r", ...).  One character, W4, stands for a code point      *)
(* whose UTF-8 encoding is four bytes long, so that byte length and        *)
(* character count differ.                                                 *)
(*                                                                         *)
(* Three specifications share the variables:                               *)
(*   Spec          a caller builds a request buffer, Request::from_string  *)
(*                 parses it, and the result is rendered and parsed again; *)
(*   HeaderSpec    a caller builds one line, Header::from_field_line       *)
(*                 parses it;                                              *)
(*   ResponseSpec  a builder chain from Response::new(), rendered by       *)
(*                 Display for Response.                                   *)
(***************************************************************************)
EXTENDS Integers, Sequences, FiniteSets, TLC

VARIABLES
    buf,       \* the request buffer given to Request::from_string
    appended,  \* the number of chunks the caller has appended to buf
    phase,     \* "build", "parsed" (from_string returned), "reparsed"
    req,       \* the Result of Request::from_string(buf)
    req2,      \* the outcome of Request::from_string(&request.to_string())
    line,      \* the field-line given to Header::from_field_line
    hdr,       \* the Result of Header::from_field_line(line)
    resp,      \* the Response of the builder chain
    last,      \* the last call of the builder chain and its arguments
    wire       \* the String of resp.to_string(), None before the call

vars == <<buf, appended, phase, req, req2, line, hdr, resp, last, wire>>

requestVars == <<buf, appended, phase, req, req2>>

headerVars == <<line, hdr>>

responseVars == <<resp, last, wire>>

(***************************************************************************)
(* Bounds of the model.                                                    *)
(***************************************************************************)
\* the number of chunks a caller appends to the start-line of a buffer
MaxChunks == 5

\* the number of characters of a field-line
MaxLineLen == 5

\* the number of characters of a response body
MaxBodyLen == 3

\* the number of headers a builder chain holds
MaxHeaders == 3

(***************************************************************************)
(* Characters and text.                                                    *)
(***************************************************************************)
SP == " "

HTAB == "\t"

CR == "\r"

LF == "\n"

COLON == ":"

\* a code point outside ASCII (four bytes in UTF-8)
W4 == "U+1F600"

CRLF == <<CR, LF>>

\* char::is_whitespace over the characters of the model
is_whitespace(c) == c \in {SP, HTAB, CR, LF}

\* char::len_utf8 over the characters of the model
len_utf8(c) == IF c = W4 THEN 4 ELSE 1

\* str::len: the length of a text in bytes
RECURSIVE str_len(_)
str_len(s) == IF s = <<>> THEN 0 ELSE len_utf8(Head(s)) + str_len(Tail(s))

\* str::find: the first index at or after i where pat occurs in s, 0 if none
RECURSIVE find_from(_, _, _)
find_from(s, pat, i) ==
    IF i + Len(pat) - 1 > Len(s) THEN 0
    ELSE IF SubSeq(s, i, i + Len(pat) - 1) = pat THEN i
    ELSE find_from(s, pat, i + 1)

\* str::split(pat): every segment between the non-overlapping occurrences of
\* pat, the empty ones included
RECURSIVE split(_, _)
split(s, pat) ==
    LET k == find_from(s, pat, 1)
    IN  IF k = 0 THEN <<s>>
        ELSE <<SubSeq(s, 1, k - 1)>> \o split(SubSeq(s, k + Len(pat), Len(s)), pat)

\* str::split_once(pat): the text before and after the first occurrence
split_once(s, pat) ==
    LET k == find_from(s, pat, 1)
    IN  IF k = 0 THEN [some |-> FALSE]
        ELSE [some |-> TRUE,
              v |-> <<SubSeq(s, 1, k - 1), SubSeq(s, k + Len(pat), Len(s))>>]

\* the decimal digit d as a character
Digit(d) == <<"0", "1", "2", "3", "4", "5", "6", "7", "8", "9">>[d + 1]

\* usize::to_string
RECURSIVE usize_to_string(_)
usize_to_string(n) ==
    IF n < 10 THEN <<Digit(n)>>
    ELSE usize_to_string(n \div 10) \o <<Digit(n % 10)>>

(***************************************************************************)
(* Option and Result.                                                      *)
(***************************************************************************)
None == [some |-> FALSE]

Some(x) == [some |-> TRUE, v |-> x]

Ok(x) == [ok |-> TRUE, v |-> x]

\* Error { error: ErrorType::ParseError, error_msg }
Err(m) == [ok |-> FALSE, error |-> "ParseError", error_msg |-> m]

(***************************************************************************)
(* Header (header.rs).                                                     *)
(***************************************************************************)
\* Header::new
Header_new(name, value) == [field_name |-> name, field_value |-> value]

\* strip_ows without the pop of the trailing whitespace character
strip_ows_leading_only(value) ==
    IF value # <<>> /\ is_whitespace(value[1]) THEN Tail(value) ELSE value

\* the removal of one leading and one trailing whitespace character
strip_ows(value) ==
    IF value = <<>> THEN value
    ELSE LET a == IF is_whitespace(value[1]) THEN Tail(value) ELSE value
         IN  IF a # <<>> /\ is_whitespace(a[Len(a)])
             THEN SubSeq(a, 1, Len(a) - 1)
             ELSE a

\* Header::from_field_line
Header_from_field_line(header) ==
    LET p == split_once(header, <<COLON>>)
    IN  IF ~p.some THEN Err("invalid header format")
        ELSE Ok(Header_new(p.v[1], strip_ows(p.v[2])))

\* Display for Header: "<field_name>: <field_value>\r\n"
Header_fmt(h) == h.field_name \o <<COLON, SP>> \o h.field_value \o CRLF

(***************************************************************************)
(* Method (method.rs).                                                     *)
(***************************************************************************)
T_GET == <<"G", "E", "T">>

T_POST == <<"P", "O", "S", "T">>

T_DELETE == <<"D", "E", "L", "E", "T", "E">>

T_PUT == <<"P", "U", "T">>

\* Method::from_string
Method_from_string(method_string) ==
    CASE method_string = T_GET    -> Ok("Get")
      [] method_string = T_POST   -> Ok("Post")
      [] method_string = T_DELETE -> Ok("Delete")
      [] method_string = T_PUT    -> Ok("Put")
      [] OTHER                    -> Err("Unknown method")

\* a rendering that returns the text t
Returns(t) == [returns |-> TRUE, text |-> t]

\* a rendering that never returns: the recursion exhausts the stack
StackOverflow == [returns |-> FALSE]

\* Display for Method: fmt writes self.to_string(), and to_string is the
\* ToString that Display itself provides, so fmt calls itself without end
Method_fmt(m) == StackOverflow

(***************************************************************************)
(* Request (request.rs).                                                   *)
(***************************************************************************)
\* Request::parse_request_line
Request_parse_request_line(request_line) ==
    LET parts == split(request_line, <<SP>>)
        method == Method_from_string(parts[1])
    IN  IF Len(parts) < 1 THEN Err("invalid request-line format")
        ELSE IF ~method.ok THEN method
        ELSE IF Len(parts) < 2 THEN Err("invalid request-line format")
        ELSE IF Len(parts) < 3 THEN Err("invalid request-line format")
        ELSE Ok(<<method.v, parts[2], parts[3]>>)

\* the header loop of Request::parse: consumes the lines from index i up to
\* and including the first empty one; next is the index of the line after
RECURSIVE scan_headers(_, _, _)
scan_headers(parts, i, header) ==
    IF i > Len(parts) THEN Ok([header |-> header, next |-> i])
    ELSE IF parts[i] = <<>> THEN Ok([header |-> header, next |-> i + 1])
    ELSE LET h == Header_from_field_line(parts[i])
         IN  IF ~h.ok THEN h
             ELSE scan_headers(parts, i + 1, Append(header, h.v))

\* take_body with an empty body in place of None at the end of the input
take_body_never_none(parts, next) ==
    IF next <= Len(parts) THEN Some(parts[next]) ELSE Some(<<>>)

\* the body of Request::parse: the line the iterator yields after the loop
take_body(parts, next) ==
    IF next <= Len(parts) THEN Some(parts[next]) ELSE None

\* Request::parse (Request::from_string)
Request_parse(request_string) ==
    LET parts == split(request_string, CRLF)
        start == Request_parse_request_line(parts[1])
        scan == scan_headers(parts, 2, <<>>)
    IN  IF Len(parts) < 1 THEN Err("invalid request format")
        ELSE IF ~start.ok THEN Err("invalid request format")
        ELSE IF ~scan.ok THEN scan
        ELSE Ok([method |-> start.v[1],
                 request_target |-> start.v[2],
                 protocol_version |-> start.v[3],
                 header |-> scan.v.header,
                 body |-> take_body(parts, scan.v.next)])

\* the concatenation of the renderings of a header sequence
RECURSIVE headers_fmt(_)
headers_fmt(hs) ==
    IF hs = <<>> THEN <<>> ELSE Header_fmt(Head(hs)) \o headers_fmt(Tail(hs))

\* the write! of Display for Request, given the rendering of the method
Request_write(method_text, q) ==
    LET body == IF q.body.some THEN q.body.v \o CRLF ELSE <<>>
    IN  method_text \o <<SP>> \o q.request_target \o <<SP>>
          \o q.protocol_version \o CRLF
          \o headers_fmt(q.header) \o CRLF \o body \o CRLF \o CRLF

\* Display for Request
Request_fmt(q) ==
    IF ~Method_fmt(q.method).returns THEN StackOverflow
    ELSE Returns(Request_write(Method_fmt(q.method).text, q))

\* Request::from_string(&q.to_string())
Request_reparse(q) ==
    IF ~Request_fmt(q).returns THEN StackOverflow
    ELSE Returns(Request_parse(Request_fmt(q).text))

(***************************************************************************)
(* Status (status.rs).                                                     *)
(***************************************************************************)
Statuses == {"Ok", "SeeOther", "BadRequest", "NotFound", "InternalServerError"}

\* Status::status_code
status_code(s) ==
    CASE s = "Ok"                  -> 200
      [] s = "SeeOther"            -> 303
      [] s = "BadRequest"          -> 400
      [] s = "NotFound"            -> 404
      [] s = "InternalServerError" -> 500

\* Status::msg
msg(s) ==
    CASE s = "Ok"                  -> <<"O", "K">>
      [] s = "SeeOther"            -> <<"S", "E", "E", " ", "O", "T", "H", "E", "R">>
      [] s = "BadRequest"          -> <<"B", "A", "D", " ", "R", "E", "Q", "U", "E", "S", "T">>
      [] s = "NotFound"            -> <<"N", "O", "T", " ", "F", "O", "U", "N", "D">>
      [] s = "InternalServerError" -> <<"I", "N", "T", "E", "R", "N", "A", "L", " ",
                                        "S", "E", "R", "V", "E", "R", " ",
                                        "E", "R", "R", "O", "R">>

\* Display for Status
Status_fmt(s) == usize_to_string(status_code(s)) \o <<SP>> \o msg(s)

(***************************************************************************)
(* Response (response.rs).                                                 *)
(***************************************************************************)
T_HTTP11 == <<"H", "T", "T", "P", "/", "1", ".", "1">>

T_ContentLength == <<"C", "o", "n", "t", "e", "n", "t", "-", "L", "e", "n", "g", "t", "h">>

T_ContentType == <<"C", "o", "n", "t", "e", "n", "t", "-", "T", "y", "p", "e">>

T_text_html == <<"t", "e", "x", "t", "/", "h", "t", "m", "l">>

T_application_json == <<"a", "p", "p", "l", "i", "c", "a", "t", "i", "o", "n", "/", "j", "s", "o", "n">>

\* Response::default (Response::new)
Response_new ==
    [protocol_version |-> T_HTTP11, status |-> "Ok", header |-> <<>>, body |-> None]

\* Response::status built from the defaults instead of from self
Response_status_from_default(self, s) ==
    [protocol_version |-> T_HTTP11, status |-> s, header |-> <<>>, body |-> None]

\* Response::status
Response_status(self, s) == [self EXCEPT !.status = s]

\* Response::header
Response_header(self, h) == [self EXCEPT !.header = Append(self.header, h)]

\* Response::content pushing its two headers onto those of self
Response_content_keeps_headers(self, content, content_type) ==
    [self EXCEPT !.header = self.header
                     \o <<Header_new(T_ContentLength, usize_to_string(str_len(content))),
                          Header_new(T_ContentType, content_type)>>,
                 !.body = Some(content)]

\* Response::content
Response_content(self, content, content_type) ==
    LET content_length_header ==
            Header_new(T_ContentLength, usize_to_string(str_len(content)))
        content_type_header == Header_new(T_ContentType, content_type)
    IN  [self EXCEPT !.header = <<content_length_header, content_type_header>>,
                     !.body = Some(content)]

\* Response::html
Response_html(self, content) == Response_content(self, content, T_text_html)

\* Response::json
Response_json(self, content) == Response_content(self, content, T_application_json)

\* Display for Response ending the body with a CRLF, as Display for Request
Response_fmt_body_crlf(self) ==
    LET body == IF self.body.some THEN self.body.v \o CRLF ELSE <<>>
    IN  self.protocol_version \o <<SP>> \o Status_fmt(self.status) \o CRLF
          \o headers_fmt(self.header) \o CRLF \o body

\* Display for Response
Response_fmt(self) ==
    LET body == IF self.body.some THEN self.body.v ELSE <<>>
    IN  self.protocol_version \o <<SP>> \o Status_fmt(self.status) \o CRLF
          \o headers_fmt(self.header) \o CRLF \o body

(***************************************************************************)
(* The inputs of the callers.                                              *)
(***************************************************************************)
\* "<m> / H": a request-line of three tokens
ThreeTokens(m) == m \o <<SP, "/", SP, "H">>

\* the start-lines a buffer begins with
StartLines ==
    { ThreeTokens(T_GET), ThreeTokens(T_POST), ThreeTokens(T_DELETE),
      ThreeTokens(T_PUT), ThreeTokens(<<"g", "e", "t">>),
      T_GET \o <<SP, "/">>, <<>> }

\* the pieces a caller appends to a buffer
Chunks == { CRLF, <<COLON>>, <<SP>>, <<"a">>, <<LF>> }

\* the characters of a field-line
LineChars == { COLON, SP, HTAB, "a" }

\* the characters of a response body
BodyChars == { "a", W4 }

\* the body texts of at most MaxBodyLen characters
BodyTexts == UNION { [1..n -> BodyChars] : n \in 0..MaxBodyLen }

\* the content types given to Response::content
ContentTypes == { <<"x", "/", "y">>, T_text_html }

\* the headers given to Response::header
CallerHeaders == { Header_new(<<"X">>, <<"1">>), Header_new(T_ContentLength, <<"6", "9">>) }

\* no result yet
NotRun == [run |-> FALSE]

\* nothing built, nothing called
Idle ==
    /\ appended = 0
    /\ phase = "build"
    /\ req = NotRun
    /\ req2 = NotRun
    /\ line = <<>>
    /\ hdr = NotRun
    /\ resp = Response_new
    /\ last = [op |-> "new"]
    /\ wire = None

\* a caller holds a start-line
Init == Idle /\ buf \in StartLines

\* a caller holds an empty line
HeaderInit == Idle /\ buf = <<>>

\* Response::new()
ResponseInit == Idle /\ buf = <<>>

(***************************************************************************)
(* Spec: Request::from_string on a buffer, then the round trip.            *)
(***************************************************************************)
\* the caller appends one chunk to the buffer
AppendChunk(c) ==
    /\ phase = "build"
    /\ appended < MaxChunks
    /\ buf' = buf \o c
    /\ appended' = appended + 1
    /\ UNCHANGED <<phase, req, req2, headerVars, responseVars>>

\* Request::from_string(buf)
FromString ==
    /\ phase = "build"
    /\ req' = Request_parse(buf)
    /\ phase' = "parsed"
    /\ UNCHANGED <<buf, appended, req2, headerVars, responseVars>>

\* Request::from_string(&q.to_string()) for the parsed request q
RoundTrip ==
    /\ phase = "parsed"
    /\ req.ok
    /\ req2' = Request_reparse(req.v)
    /\ phase' = "reparsed"
    /\ UNCHANGED <<buf, appended, req, headerVars, responseVars>>

Next ==
    \/ \E c \in Chunks : AppendChunk(c)
    \/ FromString
    \/ RoundTrip

Spec == Init /\ [][Next]_vars

(***************************************************************************)
(* HeaderSpec: Header::from_field_line on one line.                        *)
(***************************************************************************)
\* the caller appends one character to the line
AppendChar(c) ==
    /\ hdr = NotRun
    /\ Len(line) < MaxLineLen
    /\ line' = Append(line, c)
    /\ UNCHANGED <<hdr, requestVars, responseVars>>

\* Header::from_field_line(line)
FromFieldLine ==
    /\ hdr = NotRun
    /\ hdr' = Header_from_field_line(line)
    /\ UNCHANGED <<line, requestVars, responseVars>>

HeaderNext ==
    \/ \E c \in LineChars : AppendChar(c)
    \/ FromFieldLine

HeaderSpec == HeaderInit /\ [][HeaderNext]_vars

(***************************************************************************)
(* ResponseSpec: a builder chain from Response::new() and its rendering.   *)
(***************************************************************************)
\* resp.status(s)
StatusCall(s) ==
    /\ resp' = Response_status(resp, s)
    /\ last' = [op |-> "status", status |-> s]
    /\ wire' = None
    /\ UNCHANGED <<requestVars, headerVars>>

\* resp.header(h)
HeaderCall(h) ==
    /\ Len(resp.header) < MaxHeaders
    /\ resp' = Response_header(resp, h)
    /\ last' = [op |-> "header", h |-> h]
    /\ wire' = None
    /\ UNCHANGED <<requestVars, headerVars>>

\* resp.content(b, ct)
ContentCall(b, ct) ==
    /\ resp' = Response_content(resp, b, ct)
    /\ last' = [op |-> "content", content |-> b, content_type |-> ct,
                before |-> Len(resp.header)]
    /\ wire' = None
    /\ UNCHANGED <<requestVars, headerVars>>

\* resp.html(b)
HtmlCall(b) ==
    /\ resp' = Response_html(resp, b)
    /\ last' = [op |-> "html", content |-> b, before |-> Len(resp.header)]
    /\ wire' = None
    /\ UNCHANGED <<requestVars, headerVars>>

\* resp.json(b)
JsonCall(b) ==
    /\ resp' = Response_json(resp, b)
    /\ last' = [op |-> "json", content |-> b, before |-> Len(resp.header)]
    /\ wire' = None
    /\ UNCHANGED <<requestVars, headerVars>>

\* resp.to_string()
ToStringCall ==
    /\ wire' = Some(Response_fmt(resp))
    /\ last' = [op |-> "to_string"]
    /\ UNCHANGED <<resp, requestVars, headerVars>>

ResponseNext ==
    \/ \E s \in Statuses : StatusCall(s)
    \/ \E h \in CallerHeaders : HeaderCall(h)
    \/ \E b \in BodyTexts, ct \in ContentTypes : ContentCall(b, ct)
    \/ \E b \in BodyTexts : HtmlCall(b)
    \/ \E b \in BodyTexts : JsonCall(b)
    \/ ToStringCall

ResponseSpec == ResponseInit /\ [][ResponseNext]_vars

(***************************************************************************)
(* The vocabulary of the properties, stated on positions of the text and   *)
(* not through the operators of the parser.                                *)
(***************************************************************************)
\* the positions where a CRLF starts
CrlfAt(s) == { i \in 1..(Len(s) - 1) : s[i] = CR /\ s[i + 1] = LF }

\* the k-th smallest element of a set of positions
Kth(P, k) == CHOOSE i \in P : Cardinality({ j \in P : j < i }) = k - 1

\* the number of lines of a text
NumLines(s) == Cardinality(CrlfAt(s)) + 1

\* the position of the first character of line j
LineStart(s, j) == IF j = 1 THEN 1 ELSE Kth(CrlfAt(s), j - 1) + 2

\* the position of the last character of line j
LineEnd(s, j) == IF j = NumLines(s) THEN Len(s) ELSE Kth(CrlfAt(s), j) - 1

\* line j of a text
LineOf(s, j) == SubSeq(s, LineStart(s, j), LineEnd(s, j))

\* the lines after the start-line that are empty
EmptyLines(s) == { j \in 2..NumLines(s) : LineEnd(s, j) < LineStart(s, j) }

\* the first empty line after the start-line
FirstEmpty(s) == CHOOSE j \in EmptyLines(s) : \A k \in EmptyLines(s) : j <= k

\* the positions of the spaces and of the colons of a line
SpAt(l) == { i \in 1..Len(l) : l[i] = SP }

ColonAt(l) == { i \in 1..Len(l) : l[i] = COLON }

\* the canonical token of a method
TokenOf(m) ==
    CASE m = "Get" -> T_GET [] m = "Post" -> T_POST
      [] m = "Delete" -> T_DELETE [] m = "Put" -> T_PUT

\* method SP request-target SP protocol-version, the method one of the four
ValidStartLine(l) ==
    /\ Cardinality(SpAt(l)) = 2
    /\ SubSeq(l, 1, Kth(SpAt(l), 1) - 1) \in { T_GET, T_POST, T_DELETE, T_PUT }

\* Request::from_string has returned
Parsed == phase # "build"

(***************************************************************************)
(* Properties of Request::parse, under Spec.                               *)
(***************************************************************************)
\* C1: when the parse succeeds on a buffer that has lines after its first
\* empty line, the body is the whole text after that empty line.
C1_BodyIsWholeRemainder ==
    (Parsed /\ req.ok /\ EmptyLines(buf) # {} /\ FirstEmpty(buf) < NumLines(buf))
        => req.v.body = Some(SubSeq(buf, LineStart(buf, FirstEmpty(buf) + 1), Len(buf)))

\* the buffers of C2: a valid start-line, header lines with a colon, a blank
\* line and nothing after it
EndsWithBlankLine(s) ==
    /\ NumLines(s) >= 3
    /\ ValidStartLine(LineOf(s, 1))
    /\ EmptyLines(s) = { NumLines(s) - 1, NumLines(s) }
    /\ \A j \in 2..(NumLines(s) - 2) : ColonAt(LineOf(s, j)) # {}

\* C2: a buffer that ends with the blank line after its headers parses to a
\* request with one header per header line and no body.
C2_BlankLineThenNothing ==
    (Parsed /\ EndsWithBlankLine(buf))
        => /\ req.ok
           /\ Len(req.v.header) = NumLines(buf) - 3
           /\ req.v.body = None

\* the buffers of C3: a valid start-line, no empty line, a colon in every
\* following line
HeadersOnly(s) ==
    /\ ValidStartLine(LineOf(s, 1))
    /\ EmptyLines(s) = {}
    /\ \A j \in 2..NumLines(s) : ColonAt(LineOf(s, j)) # {}

\* C3: a buffer without an empty line parses to the method, target and
\* version of its start-line, one header per following line in line order,
\* and no body.
C3_NoBlankLine ==
    (Parsed /\ HeadersOnly(buf))
        => LET l == LineOf(buf, 1)
               s1 == Kth(SpAt(l), 1)
               s2 == Kth(SpAt(l), 2)
           IN  /\ req.ok
               /\ TokenOf(req.v.method) = SubSeq(l, 1, s1 - 1)
               /\ req.v.request_target = SubSeq(l, s1 + 1, s2 - 1)
               /\ req.v.protocol_version = SubSeq(l, s2 + 1, Len(l))
               /\ Len(req.v.header) = NumLines(buf) - 1
               /\ \A j \in 2..NumLines(buf) :
                     LET h == LineOf(buf, j)
                         c == Kth(ColonAt(h), 1)
                     IN  /\ req.v.header[j - 1].field_name = SubSeq(h, 1, c - 1)
                         /\ Len(req.v.header[j - 1].field_value) <= Len(h) - c
                         /\ Len(req.v.header[j - 1].field_value) >= Len(h) - c - 2
               /\ req.v.body = None

\* C3 witness: a start-line and two header lines, no blank line, parsed
C3_Witness ==
    /\ phase = "parsed"
    /\ HeadersOnly(buf)
    /\ NumLines(buf) = 3
    /\ req.ok
    /\ Len(req.v.header) = 2

\* C4: the parse succeeds only on a start-line of exactly three tokens whose
\* first token is GET, POST, DELETE or PUT; on any other it is a ParseError.
C4_ExactlyThreeTokens ==
    Parsed => IF ValidStartLine(LineOf(buf, 1))
              THEN TRUE
              ELSE ~req.ok /\ req.error = "ParseError"

\* C10: parsing the rendering of a parsed request gives the request back.
C10_RoundTrip ==
    phase = "reparsed" => req2.returns /\ req2.text = req

(***************************************************************************)
(* Properties of Header::from_field_line, under HeaderSpec.                *)
(***************************************************************************)
\* Header::from_field_line has returned
LineParsed == hdr # NotRun

\* C5: the field_value of a parsed header has no leading and no trailing
\* whitespace character.
C5_NoOuterWhitespace ==
    (LineParsed /\ hdr.ok /\ hdr.v.field_value # <<>>)
        => /\ ~is_whitespace(hdr.v.field_value[1])
           /\ ~is_whitespace(hdr.v.field_value[Len(hdr.v.field_value)])

\* C6: a line without a colon is a ParseError; otherwise field_name is the
\* text before the first colon and field_value the text after it less at most
\* one leading and at most one trailing whitespace character.
C6_SplitAtFirstColon ==
    LineParsed =>
        IF ColonAt(line) = {}
        THEN ~hdr.ok /\ hdr.error = "ParseError"
        ELSE LET c == Kth(ColonAt(line), 1)
                 lead == IF c < Len(line) /\ is_whitespace(line[c + 1]) THEN 1 ELSE 0
                 trail == IF c + lead < Len(line) /\ is_whitespace(line[Len(line)])
                          THEN 1 ELSE 0
             IN  /\ hdr.ok
                 /\ hdr.v.field_name = SubSeq(line, 1, c - 1)
                 /\ hdr.v.field_value = SubSeq(line, c + 1 + lead, Len(line) - trail)
                 /\ (c = Len(line) => hdr.v.field_value = <<>>)

\* C6 witness: a line with two colons whose value lost one whitespace
\* character on each side
C6_Witness ==
    /\ LineParsed
    /\ hdr.ok
    /\ Cardinality(ColonAt(line)) = 2
    /\ ColonAt(hdr.v.field_value) # {}
    /\ Len(hdr.v.field_name) + 1 + Len(hdr.v.field_value) + 2 = Len(line)

(***************************************************************************)
(* Properties of Response, under ResponseSpec.                             *)
(***************************************************************************)
\* the length of a text in bytes, by counting its wide characters
ByteLength(b) == Len(b) + 3 * Cardinality({ i \in 1..Len(b) : b[i] = W4 })

\* the number a text of decimal digits denotes
RECURSIVE DecimalValue(_)
DecimalValue(t) ==
    IF t = <<>> THEN 0
    ELSE 10 * DecimalValue(SubSeq(t, 1, Len(t) - 1))
           + (CHOOSE d \in 0..9 : Digit(d) = t[Len(t)])

\* a text of decimal digits without a superfluous leading zero
IsDecimal(t) ==
    /\ t # <<>>
    /\ \A i \in 1..Len(t) : \E d \in 0..9 : Digit(d) = t[i]
    /\ (Len(t) > 1 => t[1] # "0")

\* the content type of the last call, a content, html or json call
ContentTypeOf(call) ==
    CASE call.op = "content" -> call.content_type
      [] call.op = "html"    -> <<"t", "e", "x", "t", "/", "h", "t", "m", "l">>
      [] call.op = "json"    -> <<"a", "p", "p", "l", "i", "c", "a", "t", "i", "o", "n",
                                  "/", "j", "s", "o", "n">>

\* C7: content, html and json leave exactly the two headers Content-Length
\* (the decimal byte length of the body) and Content-Type, set the body, and
\* keep status and protocol_version.
C7_ContentReplacesHeaders ==
    [][ last'.op \in {"content", "html", "json"}
          => /\ Len(resp'.header) = 2
             /\ resp'.header[1].field_name =
                  <<"C", "o", "n", "t", "e", "n", "t", "-", "L", "e", "n", "g", "t", "h">>
             /\ IsDecimal(resp'.header[1].field_value)
             /\ DecimalValue(resp'.header[1].field_value) = ByteLength(last'.content)
             /\ resp'.header[2].field_name =
                  <<"C", "o", "n", "t", "e", "n", "t", "-", "T", "y", "p", "e">>
             /\ resp'.header[2].field_value = ContentTypeOf(last')
             /\ resp'.body = Some(last'.content)
             /\ resp'.status = resp.status
             /\ resp'.protocol_version = resp.protocol_version ]_vars

\* C7 witness: json on a response that held three headers, with a body of
\* more bytes than characters and a length of two digits
C7_Witness ==
    /\ last.op = "json"
    /\ last.before = 3
    /\ resp.status # "Ok"
    /\ ByteLength(resp.body.v) > Len(resp.body.v)
    /\ Len(resp.header[1].field_value) = 2

\* the rendering of a status
StatusLine(s) ==
    CASE s = "Ok" -> <<"2", "0", "0", " ", "O", "K">>
      [] s = "SeeOther" -> <<"3", "0", "3", " ", "S", "E", "E", " ", "O", "T", "H", "E", "R">>
      [] s = "BadRequest" -> <<"4", "0", "0", " ", "B", "A", "D", " ",
                               "R", "E", "Q", "U", "E", "S", "T">>
      [] s = "NotFound" -> <<"4", "0", "4", " ", "N", "O", "T", " ", "F", "O", "U", "N", "D">>
      [] s = "InternalServerError" -> <<"5", "0", "0", " ", "I", "N", "T", "E", "R", "N", "A", "L",
                                        " ", "S", "E", "R", "V", "E", "R", " ",
                                        "E", "R", "R", "O", "R">>

\* the first n headers, each as "<name>: <value>" and a CRLF
RECURSIVE FieldLines(_, _)
FieldLines(hs, n) ==
    IF n = 0 THEN <<>>
    ELSE FieldLines(hs, n - 1) \o hs[n].field_name \o <<":", " ">>
           \o hs[n].field_value \o <<"\r", "\n">>

\* C8: the rendering of a response is its protocol_version, a space, the
\* status line, CRLF, the headers in order, CRLF and the body, with nothing
\* after that CRLF when there is no body.
C8_WireFormat ==
    wire.some =>
        /\ wire.v = resp.protocol_version \o <<" ">> \o StatusLine(resp.status)
                      \o <<"\r", "\n">> \o FieldLines(resp.header, Len(resp.header))
                      \o <<"\r", "\n">> \o (IF resp.body.some THEN resp.body.v ELSE <<>>)
        /\ (resp = Response_new =>
              wire.v = <<"H", "T", "T", "P", "/", "1", ".", "1", " ", "2", "0", "0",
                         " ", "O", "K", "\r", "\n", "\r", "\n">>)

\* C8 witness: the rendering of a response with three headers and a body
C8_Witness ==
    /\ wire.some
    /\ Len(resp.header) = 3
    /\ resp.body.some
    /\ resp.body.v # <<>>
    /\ resp.status = "InternalServerError"

\* C9: status changes the status only; header appends one header and changes
\* nothing else.
C9_StatusAndHeaderFrame ==
    [][ /\ last'.op = "status"
          => /\ resp'.status = last'.status
             /\ resp'.protocol_version = resp.protocol_version
             /\ resp'.header = resp.header
             /\ resp'.body = resp.body
        /\ last'.op = "header"
          => /\ Len(resp'.header) = Len(resp.header) + 1
             /\ \A i \in 1..Len(resp.header) : resp'.header[i] = resp.header[i]
             /\ resp'.header[Len(resp'.header)] = last'.h
             /\ resp'.protocol_version = resp.protocol_version
             /\ resp'.status = resp.status
             /\ resp'.body = resp.body ]_vars

\* C9 witness: status called on a response that has a body and a header
\* appended to the two of content
C9_Witness ==
    /\ last.op = "status"
    /\ resp.status = "NotFound"
    /\ Len(resp.header) = 3
    /\ resp.body.some

====
